---------------------------- MODULE Spec2Model ----------------------------
(***************************************************************************)
(* Model of dverse-identity (src/src/lib.rs): Ed25519 key pairs, their     *)
(* sign/verify operations, and the did:dverse identifier that carries a    *)
(* public key as multibase(base58btc, multicodec 0xed01 || key bytes).     *)
(*                                                                         *)
(* Byte strings (Vec<u8>) are sequences over 0..255.  Text (String) is a   *)
(* sequence of one-character strings, so that prefixes, slices and the     *)
(* base-58 digits of a Did are computed rather than assumed.               *)
(***************************************************************************)
EXTENDS Integers, Sequences, FiniteSets, TLC

(***************************************************************************)
(* Results: Result<T, IdentityError> (lib.rs 8-23), plus the outcome that  *)
(* is not a value at all, a panic of the calling thread.                   *)
(***************************************************************************)
Ok(v) == [kind |-> "Ok", detail |-> "", val |-> v]

Err(variant, why) == [kind |-> variant, detail |-> why, val |-> << >>]

Panic(why) == [kind |-> "Panic", detail |-> why, val |-> << >>]

IdentityError ==
    { "KeyGenerationError", "SignatureError", "InvalidKey", "InvalidDidFormat",
      "EncodingError", "DecodingError", "UnsupportedMulticodec",
      "UnsupportedMultibase", "DalekError", "MultibaseError",
      "ArrayConversionError" }

(***************************************************************************)
(* Fixed sizes of the Ed25519 primitive, as the array types of lib.rs      *)
(* state them: &[u8; 32] keys and &[u8; 64] signatures.                    *)
(***************************************************************************)
PUBLIC_KEY_LENGTH == 32

SECRET_KEY_LENGTH == 32

SIGNATURE_LENGTH == 64

(***************************************************************************)
(* Did constants (lib.rs 133-134).                                         *)
(***************************************************************************)
MULTICODEC_ED25519_PUB == << 237, 1 >>

DID_DVERSE_PREFIX == << "d", "i", "d", ":", "d", "v", "e", "r", "s", "e", ":" >>

(***************************************************************************)
(* str::starts_with and the slices &s[n..], &v[a..b] used by lib.rs.       *)
(***************************************************************************)
starts_with(s, p) == Len(s) >= Len(p) /\ SubSeq(s, 1, Len(p)) = p

SliceFrom(s, n) == SubSeq(s, n + 1, Len(s))

RECURSIVE Reverse(_)
Reverse(s) == IF s = << >> THEN << >> ELSE Append(Reverse(Tail(s)), Head(s))

RECURSIVE LeadingCount(_, _)
LeadingCount(s, x) ==
    IF s # << >> /\ Head(s) = x THEN 1 + LeadingCount(Tail(s), x) ELSE 0

Repeat(x, n) == [i \in 1..n |-> x]

(***************************************************************************)
(* The multibase crate (lib.rs 4).  Base58Btc is positional notation in    *)
(* radix 58 over the bitcoin alphabet, every leading zero byte written as  *)
(* the alphabet's first character.  The conversion is carried out digit by *)
(* digit on little-endian digit strings: MulAdd(ds, m, r, c) is ds * m + c *)
(* in radix r.                                                             *)
(***************************************************************************)
BASE58_BITCOIN ==
    << "1", "2", "3", "4", "5", "6", "7", "8", "9", "A", "B", "C", "D", "E",
       "F", "G", "H", "J", "K", "L", "M", "N", "P", "Q", "R", "S", "T", "U",
       "V", "W", "X", "Y", "Z", "a", "b", "c", "d", "e", "f", "g", "h", "i",
       "j", "k", "m", "n", "o", "p", "q", "r", "s", "t", "u", "v", "w", "x",
       "y", "z" >>

BASE16_LOWER ==
    << "0", "1", "2", "3", "4", "5", "6", "7", "8", "9", "a", "b", "c", "d",
       "e", "f" >>

InAlphabet(alphabet, c) == \E i \in 1..Len(alphabet) : alphabet[i] = c

DigitOf(alphabet, c) == (CHOOSE i \in 1..Len(alphabet) : alphabet[i] = c) - 1

RECURSIVE MulAdd(_, _, _, _)
MulAdd(ds, m, r, c) ==
    IF ds = << >>
    THEN IF c = 0 THEN << >> ELSE << c % r >> \o MulAdd(<< >>, m, r, c \div r)
    ELSE LET v == Head(ds) * m + c
         IN  << v % r >> \o MulAdd(Tail(ds), m, r, v \div r)

RECURSIVE Radix(_, _, _, _)
Radix(src, from, to, acc) ==
    IF src = << >> THEN acc
    ELSE Radix(Tail(src), from, to, MulAdd(acc, from, to, Head(src)))

Base58Encode(bytes) ==
    LET zeros  == LeadingCount(bytes, 0)
        digits == Reverse(Radix(bytes, 256, 58, << >>))
    IN  Repeat(BASE58_BITCOIN[1], zeros)
            \o [i \in 1..Len(digits) |-> BASE58_BITCOIN[digits[i] + 1]]

Base58Decode(text) ==
    IF \E i \in 1..Len(text) : ~InAlphabet(BASE58_BITCOIN, text[i])
    THEN Err("MultibaseError", "InvalidBaseString")
    ELSE LET zeros  == LeadingCount(text, BASE58_BITCOIN[1])
             digits == [i \in 1..Len(text) |-> DigitOf(BASE58_BITCOIN, text[i])]
         IN  Ok(Repeat(0, zeros) \o Reverse(Radix(digits, 58, 256, << >>)))

Base16Decode(text) ==
    IF \/ Len(text) % 2 # 0
       \/ \E i \in 1..Len(text) : ~InAlphabet(BASE16_LOWER, text[i])
    THEN Err("MultibaseError", "InvalidBaseString")
    ELSE Ok([i \in 1..(Len(text) \div 2) |->
                16 * DigitOf(BASE16_LOWER, text[2 * i - 1])
                   + DigitOf(BASE16_LOWER, text[2 * i])])

\* Base::from_code, for the codes that occur in the texts of this model.
BaseFromCode(code) ==
    CASE code = "z" -> "Base58Btc"
      [] code = "f" -> "Base16Lower"
      [] OTHER      -> "UnknownBase"

\* multibase::encode(Base::Base58Btc, bytes): the code character, then the digits.
encode(bytes) == << "z" >> \o Base58Encode(bytes)

\* multibase::decode(text): Ok([base, bytes]) or the crate's error.
decode(text) ==
    IF text = << >> THEN Err("MultibaseError", "InvalidBaseString")
    ELSE LET base == BaseFromCode(Head(text))
             got  == IF base = "Base58Btc" THEN Base58Decode(Tail(text))
                     ELSE Base16Decode(Tail(text))
         IN  IF base = "UnknownBase" THEN Err("MultibaseError", "UnknownBase")
             ELSE IF got.kind # "Ok" THEN got
             ELSE Ok([base |-> base, bytes |-> got.val])

(***************************************************************************)
(* Did (lib.rs 131-175).                                                   *)
(***************************************************************************)
(***************************************************************************)
(* Faulty variants of the Did operations, used to show that the properties *)
(* below depend on the code: the tag left out of the encoding; a decoder   *)
(* with a shorter prefix test, without the base test, with the tag         *)
(* compared on its first `tag` bytes only, or stripping `strip` bytes.     *)
(***************************************************************************)
from_public_key_NoTag(public_key) == DID_DVERSE_PREFIX \o encode(public_key)

to_public_key_Variant(did, prefix, base_checked, tag, strip) ==
    IF ~starts_with(did, prefix)
    THEN Err("InvalidDidFormat", "prefix")
    ELSE IF Len(did) < Len(DID_DVERSE_PREFIX)
    THEN Panic("byte index out of bounds of str")
    ELSE LET decoded == decode(SliceFrom(did, Len(DID_DVERSE_PREFIX)))
             n       == Len(MULTICODEC_ED25519_PUB)
         IN  IF decoded.kind # "Ok" THEN decoded
             ELSE IF base_checked /\ decoded.val.base # "Base58Btc"
             THEN Err("UnsupportedMultibase", decoded.val.base)
             ELSE LET decoded_bytes == decoded.val.bytes
                  IN  IF Len(decoded_bytes) < n
                      THEN Panic("range end index out of range for slice")
                      ELSE IF SubSeq(decoded_bytes, 1, tag)
                                # SubSeq(MULTICODEC_ED25519_PUB, 1, tag)
                      THEN Err("UnsupportedMulticodec", "prefix")
                      ELSE Ok(SliceFrom(decoded_bytes, strip))

to_public_key_KeepsTagByte(did) ==
    to_public_key_Variant(did, DID_DVERSE_PREFIX, TRUE, 2, 1)

to_public_key_LoosePrefix(did) ==
    to_public_key_Variant(did, SubSeq(DID_DVERSE_PREFIX, 1, 4), TRUE, 2, 2)

to_public_key_NoBaseCheck(did) ==
    to_public_key_Variant(did, DID_DVERSE_PREFIX, FALSE, 2, 2)

to_public_key_FirstTagByte(did) ==
    to_public_key_Variant(did, DID_DVERSE_PREFIX, TRUE, 1, 2)

from_public_key(public_key) ==
    LET prefixed_key_bytes == MULTICODEC_ED25519_PUB \o public_key
        encoded_key        == encode(prefixed_key_bytes)
    IN  DID_DVERSE_PREFIX \o encoded_key

to_public_key(did) ==
    IF ~starts_with(did, DID_DVERSE_PREFIX)
    THEN Err("InvalidDidFormat", "prefix")
    ELSE LET encoded_part == SliceFrom(did, Len(DID_DVERSE_PREFIX))
             decoded      == decode(encoded_part)
             n            == Len(MULTICODEC_ED25519_PUB)
         IN  IF decoded.kind # "Ok" THEN decoded
             ELSE IF decoded.val.base # "Base58Btc"
             THEN Err("UnsupportedMultibase", decoded.val.base)
             ELSE LET decoded_bytes == decoded.val.bytes
                  IN  IF \/ Len(decoded_bytes) < n
                         \/ SubSeq(decoded_bytes, 1, n) # MULTICODEC_ED25519_PUB
                      THEN \* the message formats &decoded_bytes[0..n]
                           IF Len(decoded_bytes) < n
                           THEN Panic("range end index out of range for slice")
                           ELSE Err("UnsupportedMulticodec", "prefix")
                      ELSE Ok(SliceFrom(decoded_bytes, n))

(***************************************************************************)
(* The Ed25519 primitive (ed25519_dalek, lib.rs 1).  It is an external     *)
(* collaborator, so it enters the model through what it computes on the    *)
(* keys and messages the model uses: the values below are the RFC 8032     *)
(* results (public key of a seed, signature of a message under a seed),    *)
(* and verification accepts a signature exactly when it is the signature   *)
(* of that message under the seed of that public key.                      *)
(***************************************************************************)
Seed1 ==
    << 157, 97, 177, 157, 239, 253, 90, 96, 186, 132, 74, 244, 146, 236, 44, 196,
       68, 73, 197, 105, 123, 50, 105, 25, 112, 59, 172, 3, 28, 174, 127, 96 >>

Seed2 ==
    << 76, 205, 8, 155, 40, 255, 150, 218, 157, 182, 195, 70, 236, 17, 78, 15,
       91, 138, 49, 159, 53, 171, 166, 36, 218, 140, 246, 237, 79, 184, 166, 251 >>

Dummy ==
    << 0, 0, 0, 0, 0, 0, 0, 0, 0, 0, 0, 0, 0, 0, 0, 0,
       0, 0, 0, 0, 0, 0, 0, 0, 0, 0, 0, 0, 0, 0, 0, 0 >>

Msg1 ==
    << 72, 101, 108, 108, 111, 44, 32, 68, 45, 86, 101, 114, 115, 101, 33 >>

Msg2 ==
    << 71, 111, 111, 100, 98, 121, 101, 44, 32, 68, 45, 86, 101, 114, 115, 101,
       33 >>

Msg3 ==
    << >>

PubSeed1 ==
    << 215, 90, 152, 1, 130, 177, 10, 183, 213, 75, 254, 211, 201, 100, 7, 58,
       14, 225, 114, 243, 218, 166, 35, 37, 175, 2, 26, 104, 247, 7, 81, 26 >>

PubSeed2 ==
    << 61, 64, 23, 195, 232, 67, 137, 90, 146, 183, 10, 167, 77, 27, 126, 188,
       156, 152, 44, 207, 46, 196, 150, 140, 192, 205, 85, 241, 42, 244, 102, 12 >>

PubDummy ==
    << 59, 106, 39, 188, 206, 182, 164, 45, 98, 163, 168, 208, 42, 111, 13, 115,
       101, 50, 21, 119, 29, 226, 67, 166, 58, 192, 72, 161, 139, 89, 218, 41 >>

SigSeed1Msg1 ==
    << 152, 113, 28, 100, 210, 70, 10, 15, 131, 189, 236, 212, 168, 108, 105, 130,
       133, 37, 85, 192, 36, 251, 16, 78, 45, 228, 198, 101, 119, 124, 180, 74,
       46, 89, 228, 148, 236, 86, 204, 62, 248, 239, 160, 56, 178, 126, 255, 155,
       35, 144, 43, 81, 29, 24, 170, 215, 152, 84, 122, 253, 117, 190, 96, 3 >>

SigSeed1Msg2 ==
    << 6, 213, 36, 38, 6, 133, 105, 109, 5, 61, 141, 2, 155, 15, 164, 77,
       1, 46, 101, 43, 136, 164, 167, 216, 70, 245, 195, 149, 29, 85, 118, 16,
       148, 12, 62, 186, 143, 2, 137, 136, 17, 184, 132, 29, 113, 16, 56, 109,
       184, 63, 170, 49, 176, 190, 26, 255, 243, 33, 202, 186, 75, 133, 233, 1 >>

SigSeed1Msg3 ==
    << 229, 86, 67, 0, 195, 96, 172, 114, 144, 134, 226, 204, 128, 110, 130, 138,
       132, 135, 127, 30, 184, 229, 217, 116, 216, 115, 224, 101, 34, 73, 1, 85,
       95, 184, 130, 21, 144, 163, 59, 172, 198, 30, 57, 112, 28, 249, 180, 107,
       210, 91, 245, 240, 89, 91, 190, 36, 101, 81, 65, 67, 142, 122, 16, 11 >>

SigSeed2Msg1 ==
    << 244, 34, 75, 60, 24, 215, 177, 215, 50, 205, 175, 109, 222, 96, 72, 174,
       92, 173, 156, 119, 17, 193, 13, 122, 8, 131, 55, 10, 229, 66, 122, 16,
       70, 69, 215, 109, 70, 235, 62, 47, 82, 48, 193, 29, 229, 127, 92, 36,
       177, 66, 77, 255, 254, 4, 122, 229, 2, 221, 231, 253, 229, 221, 18, 0 >>

SigSeed2Msg2 ==
    << 193, 193, 165, 51, 135, 40, 142, 103, 229, 222, 42, 29, 83, 57, 3, 139,
       11, 247, 44, 78, 66, 251, 191, 207, 189, 54, 47, 55, 161, 83, 110, 173,
       158, 84, 137, 212, 92, 114, 37, 164, 201, 9, 245, 248, 186, 35, 119, 18,
       249, 92, 48, 123, 245, 180, 87, 198, 58, 234, 101, 118, 200, 85, 139, 4 >>

SigSeed2Msg3 ==
    << 48, 207, 204, 70, 10, 62, 81, 181, 90, 195, 231, 218, 248, 141, 187, 222,
       47, 102, 199, 107, 27, 142, 111, 228, 36, 86, 143, 34, 45, 37, 148, 5,
       99, 54, 11, 156, 82, 120, 64, 182, 183, 215, 132, 165, 161, 63, 163, 131,
       102, 26, 13, 178, 115, 74, 181, 230, 110, 172, 237, 209, 80, 175, 102, 3 >>

SigDummyMsg1 ==
    << 249, 71, 71, 93, 46, 233, 80, 163, 196, 173, 62, 42, 234, 175, 249, 176,
       196, 64, 227, 101, 144, 189, 141, 198, 131, 40, 7, 147, 105, 27, 148, 76,
       10, 183, 107, 4, 131, 6, 34, 182, 105, 36, 105, 225, 150, 166, 218, 84,
       133, 231, 84, 118, 57, 46, 145, 130, 150, 209, 31, 73, 52, 206, 56, 1 >>

SigDummyMsg2 ==
    << 22, 101, 172, 28, 198, 6, 127, 102, 122, 189, 207, 82, 246, 62, 29, 81,
       41, 188, 196, 94, 158, 245, 15, 164, 45, 136, 102, 58, 126, 67, 96, 159,
       165, 103, 23, 65, 241, 77, 145, 120, 57, 198, 87, 17, 132, 100, 235, 58,
       242, 122, 222, 249, 93, 70, 214, 215, 172, 204, 87, 199, 180, 174, 194, 9 >>

SigDummyMsg3 ==
    << 143, 137, 91, 60, 175, 226, 201, 80, 96, 57, 208, 226, 166, 99, 130, 86,
       128, 4, 103, 79, 232, 210, 55, 120, 80, 146, 228, 13, 106, 175, 72, 62,
       79, 198, 1, 104, 112, 95, 49, 241, 1, 89, 97, 56, 206, 33, 170, 53,
       124, 13, 50, 160, 100, 244, 35, 220, 62, 228, 170, 58, 191, 83, 248, 3 >>

\* A 32-byte string that is no curve point: y = 2 has no x on the curve.
NonPoint == [i \in 1..PUBLIC_KEY_LENGTH |-> IF i = 1 THEN 2 ELSE 0]

\* the seeds the random source of KeyPair::generate yields in this model
GeneratedSeeds == { Seed1, Seed2 }

Messages == { Msg1, Msg2, Msg3 }

SignTable ==
    { [sk |-> Seed1, pk |-> PubSeed1, msg |-> Msg1, sig |-> SigSeed1Msg1],
      [sk |-> Seed1, pk |-> PubSeed1, msg |-> Msg2, sig |-> SigSeed1Msg2],
      [sk |-> Seed1, pk |-> PubSeed1, msg |-> Msg3, sig |-> SigSeed1Msg3],
      [sk |-> Seed2, pk |-> PubSeed2, msg |-> Msg1, sig |-> SigSeed2Msg1],
      [sk |-> Seed2, pk |-> PubSeed2, msg |-> Msg2, sig |-> SigSeed2Msg2],
      [sk |-> Seed2, pk |-> PubSeed2, msg |-> Msg3, sig |-> SigSeed2Msg3],
      [sk |-> Dummy, pk |-> PubDummy, msg |-> Msg1, sig |-> SigDummyMsg1],
      [sk |-> Dummy, pk |-> PubDummy, msg |-> Msg2, sig |-> SigDummyMsg2],
      [sk |-> Dummy, pk |-> PubDummy, msg |-> Msg3, sig |-> SigDummyMsg3] }

\* SigningKey::from_bytes(sk).verifying_key().to_bytes()
verifying_key(sk) == (CHOOSE e \in SignTable : e.sk = sk).pk

\* SigningKey::from_bytes(sk).sign(message).to_bytes()
PrimSign(sk, message) ==
    (CHOOSE e \in SignTable : e.sk = sk /\ e.msg = message).sig

\* VerifyingKey::from_bytes(pk) succeeds: pk decompresses to a curve point.
IsPoint(pk) ==
    CASE pk \in { PubSeed1, PubSeed2, PubDummy } -> TRUE
      [] pk = NonPoint -> FALSE

\* verifying_key.verify(message, &signature) succeeds.
PrimVerify(pk, message, sig) ==
    \E e \in SignTable : e.pk = pk /\ e.msg = message /\ e.sig = sig

(***************************************************************************)
(* KeyPair (lib.rs 83-128).                                                *)
(***************************************************************************)
KeyPair(private_key, public_key) ==
    [private_key |-> private_key, public_key |-> public_key]

\* KeyPair::generate with the random source yielding `seed`.
generate(seed) == KeyPair(seed, verifying_key(seed))

sign(self, message) ==
    IF Len(self.private_key) # SECRET_KEY_LENGTH
    THEN Err("ArrayConversionError", "Private key bytes are not 32 bytes long")
    ELSE Ok(PrimSign(self.private_key, message))

\* Faulty variants of verify: the signature length compared with the key
\* length, and the primitive's verdict dropped.
verify_SignatureLengthAsKey(self, message, sig) ==
    IF Len(self.public_key) # PUBLIC_KEY_LENGTH
    THEN Err("ArrayConversionError", "Public key bytes are not 32 bytes long")
    ELSE IF ~IsPoint(self.public_key)
    THEN Err("DalekError", "Cannot decompress Edwards point")
    ELSE IF Len(sig) # PUBLIC_KEY_LENGTH
    THEN Err("ArrayConversionError", "Signature bytes are not 64 bytes long")
    ELSE IF ~PrimVerify(self.public_key, message, sig)
    THEN Err("DalekError", "Verification equation was not satisfied")
    ELSE Ok(<< >>)

verify_Unchecked(self, message, sig) ==
    IF Len(self.public_key) # PUBLIC_KEY_LENGTH
    THEN Err("ArrayConversionError", "Public key bytes are not 32 bytes long")
    ELSE IF ~IsPoint(self.public_key)
    THEN Err("DalekError", "Cannot decompress Edwards point")
    ELSE IF Len(sig) # SIGNATURE_LENGTH
    THEN Err("ArrayConversionError", "Signature bytes are not 64 bytes long")
    ELSE Ok(<< >>)

verify(self, message, sig) ==
    IF Len(self.public_key) # PUBLIC_KEY_LENGTH
    THEN Err("ArrayConversionError", "Public key bytes are not 32 bytes long")
    ELSE IF ~IsPoint(self.public_key)
    THEN Err("DalekError", "Cannot decompress Edwards point")
    ELSE IF Len(sig) # SIGNATURE_LENGTH
    THEN Err("ArrayConversionError", "Signature bytes are not 64 bytes long")
    ELSE IF ~PrimVerify(self.public_key, message, sig)
    THEN Err("DalekError", "Verification equation was not satisfied")
    ELSE Ok(<< >>)

(***************************************************************************)
(* Inputs.  Texts are the strings handed to Did::from: every known prefix  *)
(* followed by every tail of at most MaxTail characters, and the strings   *)
(* of tests/identity_tests.rs.  Hand-built key pairs (the struct's fields  *)
(* are public) take their halves from HandPrivate and HandPublic.          *)
(***************************************************************************)
MaxTail == 4

TailChars == { "z", "f", "x", "l", "K", "3", "6", "1" }

Prefixes ==
    { DID_DVERSE_PREFIX,
      << "d", "i", "d", ":", "k", "e", "y", ":" >>,
      << "d", "i", "d", ":", "d", "v", "e", "r", "s", "e" >>,
      << >> }

Tails == UNION { [1..k -> TailChars] : k \in 0..MaxTail }

TestTexts ==
    { << "n", "o", "t", ":", "a", ":", "d", "i", "d", ":", "k", "e", "y" >>,
      << "d", "i", "d", ":", "k", "e", "y", ":", "z", "A", "B", "C" >>,
      DID_DVERSE_PREFIX \o << "x", "A", "B", "C" >>,
      DID_DVERSE_PREFIX \o << "z", "6", "N", "A", "B", "C" >> }

Texts == { p \o t : p \in Prefixes, t \in Tails } \cup TestTexts

HandPrivate == { Dummy, SubSeq(Dummy, 1, SECRET_KEY_LENGTH - 1) }

HandPublic ==
    { PubSeed1, NonPoint, SubSeq(PubSeed1, 1, PUBLIC_KEY_LENGTH - 1),
      Append(PubSeed1, 0) }

(***************************************************************************)
(* State: the values a client of the library holds.  None is << >> and     *)
(* Some(x) is << x >>.                                                     *)
(*   keypair    the key pair in hand                                       *)
(*   origin     how it was obtained, and for a pair rebuilt from a decoded *)
(*              Did, the text it was decoded from                          *)
(*   message    the message last signed                                    *)
(*   signature  the signature bytes in hand                                *)
(*   signed     the pair that signed and the signature as sign returned it *)
(*   did        the Did in hand                                            *)
(*   ret        the last step: operation, message argument, result         *)
(***************************************************************************)
VARIABLES keypair, origin, message, signature, signed, did, ret

vars == << keypair, origin, message, signature, signed, did, ret >>

None == << >>

Some(x) == << x >>

Call(op, msg, r) ==
    [op |-> op, msg |-> msg, kind |-> r.kind, detail |-> r.detail, val |-> r.val]

Origin(how, text) == [how |-> how, did |-> text]

\* signature[i] ^= 1 << b
Flip(sig, i, b) ==
    [sig EXCEPT ![i] = IF (@ \div (2 ^ b)) % 2 = 1 THEN @ - 2 ^ b ELSE @ + 2 ^ b]

Pristine == IF signed = None THEN TRUE ELSE signature = signed[1].sig

Init ==
    /\ keypair = None
    /\ origin = Origin("none", << >>)
    /\ message = << >>
    /\ signature = << >>
    /\ signed = None
    /\ did = None
    /\ ret = Call("none", << >>, Ok(<< >>))

\* let keypair = KeyPair::generate()
Generate ==
    /\ keypair = None /\ did = None
    /\ \E seed \in GeneratedSeeds : keypair' = Some(generate(seed))
    /\ origin' = Origin("generate", << >>)
    /\ ret' = Call("generate", << >>, Ok(<< >>))
    /\ UNCHANGED << message, signature, signed, did >>

\* KeyPair { private_key: PrivateKey::from_bytes(..), public_key: PublicKey::from_bytes(..) }
KeyPairFromBytes ==
    /\ keypair = None /\ did = None
    /\ \E sk \in HandPrivate, pk \in HandPublic : keypair' = Some(KeyPair(sk, pk))
    /\ origin' = Origin("from_bytes", << >>)
    /\ ret' = Call("from_bytes", << >>, Ok(<< >>))
    /\ UNCHANGED << message, signature, signed, did >>

\* KeyPair { private_key: dummy, public_key: recovered_public_key }
KeyPairFromRecovered ==
    /\ ret.op = "to_public_key" /\ ret.kind = "Ok"
    /\ keypair' = Some(KeyPair(Dummy, ret.val))
    /\ origin' = Origin("recovered", did[1])
    /\ ret' = Call("from_recovered", << >>, Ok(<< >>))
    /\ UNCHANGED << message, signature, signed, did >>

\* let signature = keypair.sign(message)
Sign ==
    /\ keypair # None /\ Pristine
    /\ \E m \in Messages :
         LET r == sign(keypair[1], m)
         IN  /\ ret' = Call("sign", m, r)
             /\ IF r.kind = "Ok"
                THEN /\ message' = m
                     /\ signature' = r.val
                     /\ signed' = Some([by |-> keypair[1], sig |-> r.val])
                ELSE UNCHANGED << message, signature, signed >>
    /\ UNCHANGED << keypair, origin, did >>

\* signature[i] ^= 1 << b, on the signature as sign returned it
Tamper ==
    /\ signed # None /\ signature = signed[1].sig
    /\ \E i \in 1..Len(signature), b \in 0..7 : signature' = Flip(signature, i, b)
    /\ ret' = Call("tamper", << >>, Ok(<< >>))
    /\ UNCHANGED << keypair, origin, message, signed, did >>

\* signature.pop() / signature.push(0)
Resize ==
    /\ signed # None /\ signature = signed[1].sig
    /\ \/ signature' = SubSeq(signature, 1, Len(signature) - 1)
       \/ signature' = Append(signature, 0)
    /\ ret' = Call("resize", << >>, Ok(<< >>))
    /\ UNCHANGED << keypair, origin, message, signed, did >>

\* keypair.verify(m, &signature)
Verify ==
    /\ keypair # None
    /\ \E m \in Messages : ret' = Call("verify", m, verify(keypair[1], m, signature))
    /\ UNCHANGED << keypair, origin, message, signature, signed, did >>

\* let did = Did::from_public_key(&keypair.public_key)
FromPublicKey ==
    /\ keypair # None /\ Pristine
    /\ did' = Some(from_public_key(keypair[1].public_key))
    /\ ret' = Call("from_public_key", << >>, Ok(<< >>))
    /\ UNCHANGED << keypair, origin, message, signature, signed >>

\* let did = Did::from(text)
FromString ==
    /\ keypair = None /\ did = None
    /\ \E text \in Texts : did' = Some(text)
    /\ ret' = Call("from_string", << >>, Ok(<< >>))
    /\ UNCHANGED << keypair, origin, message, signature, signed >>

\* did.to_public_key()
ToPublicKey ==
    /\ did # None /\ Pristine
    /\ ret' = Call("to_public_key", << >>, to_public_key(did[1]))
    /\ UNCHANGED << keypair, origin, message, signature, signed, did >>

Next ==
    \/ Generate
    \/ KeyPairFromBytes
    \/ KeyPairFromRecovered
    \/ Sign
    \/ Tamper
    \/ Resize
    \/ Verify
    \/ FromPublicKey
    \/ FromString
    \/ ToPublicKey

Spec == Init /\ [][Next]_vars

(***************************************************************************)
(* Vocabulary of the properties.                                           *)
(***************************************************************************)
IsGenerated(kp) == \E seed \in GeneratedSeeds : kp = generate(seed)

\* s is t with exactly one bit flipped
FlippedOnce(s, t) ==
    /\ Len(s) = Len(t)
    /\ LET diff == { i \in 1..Len(t) : s[i] # t[i] }
       IN  /\ Cardinality(diff) = 1
           /\ \E i \in diff, b \in 0..7 : s[i] = Flip(t, i, b)[i]

\* the Did in hand has the method prefix and a multibase code character
HasCode == starts_with(did[1], DID_DVERSE_PREFIX) /\ Len(did[1]) > Len(DID_DVERSE_PREFIX)

Code == did[1][Len(DID_DVERSE_PREFIX) + 1]

Payload == SliceFrom(did[1], Len(DID_DVERSE_PREFIX) + 1)

\* the last call verified the signature as sign returned it, for the signed message
VerifiedOwnSignature ==
    /\ ret.op = "verify"
    /\ signed # None
    /\ signature = signed[1].sig
    /\ ret.msg = message
    /\ IsGenerated(signed[1].by)

(***************************************************************************)
(* C1. Round trip: for a 32-byte public key P, to_public_key applied to    *)
(* Did::from_public_key(P) succeeds and returns exactly the bytes of P.    *)
(***************************************************************************)
C1_RoundTrip ==
    ( /\ ret.op = "to_public_key"
      /\ keypair # None
      /\ Len(keypair[1].public_key) = PUBLIC_KEY_LENGTH
      /\ did[1] = from_public_key(keypair[1].public_key) )
        => ret.kind = "Ok" /\ ret.val = keypair[1].public_key

C1_Witness ==
    /\ ret.op = "to_public_key"
    /\ keypair # None
    /\ IsGenerated(keypair[1])
    /\ did[1] = from_public_key(keypair[1].public_key)
    /\ ret.val = keypair[1].public_key

(***************************************************************************)
(* C2. Sign/verify: a generated key pair K signs any message M into 64     *)
(* bytes S, and verify(M, S) succeeds on K itself and on the pair built    *)
(* from a dummy private key and the public key decoded from                *)
(* Did::from_public_key(K.public_key).                                     *)
(***************************************************************************)
C2_SignVerify ==
    /\ (ret.op = "sign" /\ IsGenerated(keypair[1]))
         => ret.kind = "Ok" /\ Len(ret.val) = SIGNATURE_LENGTH
    /\ (VerifiedOwnSignature /\ keypair[1] = signed[1].by) => ret.kind = "Ok"
    /\ ( /\ VerifiedOwnSignature
         /\ origin.how = "recovered"
         /\ origin.did = from_public_key(signed[1].by.public_key) )
         => ret.kind = "Ok"

C2_Witness ==
    /\ VerifiedOwnSignature
    /\ origin.how = "recovered"
    /\ origin.did = from_public_key(signed[1].by.public_key)
    /\ keypair[1].private_key = Dummy
    /\ keypair[1] # signed[1].by
    /\ ret.kind = "Ok"

(***************************************************************************)
(* C3. to_public_key is total: on every Did built from any text it returns *)
(* a key or an error value, and never aborts.                              *)
(***************************************************************************)
C3_NeverPanics == ret.op = "to_public_key" => ret.kind # "Panic"

(***************************************************************************)
(* C4. Whenever to_public_key succeeds, the key it returns is exactly 32   *)
(* bytes long.                                                             *)
(***************************************************************************)
C4_KeyIs32Bytes ==
    (ret.op = "to_public_key" /\ ret.kind = "Ok") => Len(ret.val) = PUBLIC_KEY_LENGTH

(***************************************************************************)
(* C5. Format rejection: a text that does not start with "did:dverse:"     *)
(* fails to_public_key with InvalidDidFormat, whatever follows.            *)
(***************************************************************************)
C5_FormatRejection ==
    (ret.op = "to_public_key" /\ ~starts_with(did[1], DID_DVERSE_PREFIX))
        => ret.kind = "InvalidDidFormat" /\ ret.val = << >>

\* the rejected text carries a payload that decodes once the prefix is right
C5_Witness ==
    /\ ret.op = "to_public_key"
    /\ ret.kind = "InvalidDidFormat"
    /\ did[1] = << "d", "i", "d", ":", "k", "e", "y", ":", "z", "K", "3", "6" >>
    /\ to_public_key(DID_DVERSE_PREFIX \o << "z", "K", "3", "6" >>).kind = "Ok"

C7_TagRejection ==
    ( /\ ret.op = "to_public_key"
      /\ HasCode
      /\ Code = "z"
      /\ Base58Decode(Payload).kind = "Ok"
      /\ Len(Base58Decode(Payload).val) >= 2
      /\ SubSeq(Base58Decode(Payload).val, 1, 2) # << 237, 1 >> )
        => ret.kind = "UnsupportedMulticodec" /\ ret.val = << >>

\* the first tag byte is right and the second is wrong
C7_Witness ==
    /\ ret.op = "to_public_key"
    /\ ret.kind = "UnsupportedMulticodec"
    /\ HasCode
    /\ Base58Decode(Payload).kind = "Ok"
    /\ Base58Decode(Payload).val[1] = 237

(***************************************************************************)
(* C8. verify classifies by length first: a public key that is not 32      *)
(* bytes is the key-length error; with a 32-byte public key, whatever its  *)
(* bytes, a signature that is not 64 bytes is the signature-length error;  *)
(* the primitive's rejection occurs only when both lengths are right.      *)
(***************************************************************************)
C8_LengthBeforePrimitive ==
    ret.op = "verify" =>
        /\ Len(keypair[1].public_key) # PUBLIC_KEY_LENGTH
             => /\ ret.kind = "ArrayConversionError"
                /\ ret.detail = "Public key bytes are not 32 bytes long"
        /\ ( /\ Len(keypair[1].public_key) = PUBLIC_KEY_LENGTH
             /\ Len(signature) # SIGNATURE_LENGTH )
             => /\ ret.kind = "ArrayConversionError"
                /\ ret.detail = "Signature bytes are not 64 bytes long"
        /\ ret.kind = "DalekError"
             => /\ Len(keypair[1].public_key) = PUBLIC_KEY_LENGTH
                /\ Len(signature) = SIGNATURE_LENGTH

(***************************************************************************)
(* C9. Tamper and wrong-message rejection: for a generated pair K, a       *)
(* message M and S = K.sign(M), verifying S with one bit flipped against   *)
(* M, or S against another message, fails with the primitive's rejection   *)
(* (DalekError), not with a length error and not by aborting.              *)
(***************************************************************************)
C9_TamperRejection ==
    ( /\ ret.op = "verify"
      /\ signed # None
      /\ IsGenerated(signed[1].by)
      /\ keypair[1] = signed[1].by
      /\ \/ ret.msg = message /\ FlippedOnce(signature, signed[1].sig)
         \/ ret.msg # message /\ signature = signed[1].sig )
        => ret.kind = "DalekError"

\* a flip in the last byte of the signature, verified against the signed message
C9_Witness ==
    /\ ret.op = "verify"
    /\ signed # None
    /\ IsGenerated(signed[1].by)
    /\ keypair[1] = signed[1].by
    /\ ret.msg = message
    /\ FlippedOnce(signature, signed[1].sig)
    /\ signature[SIGNATURE_LENGTH] # signed[1].sig[SIGNATURE_LENGTH]
    /\ ret.kind = "DalekError"

(***************************************************************************)
(* C10. Canonical text: if to_public_key succeeds on a Did with key P then *)
(* Did::from_public_key(P) is that same Did, so two different Did strings  *)
(* never decode to the same key.                                           *)
(***************************************************************************)
C10_CanonicalText ==
    (ret.op = "to_public_key" /\ ret.kind = "Ok") => from_public_key(ret.val) = did[1]

\* a Did that was built from text, not by from_public_key
C10_Witness ==
    /\ ret.op = "to_public_key"
    /\ ret.kind = "Ok"
    /\ keypair = None
    /\ from_public_key(ret.val) = did[1]
=============================================================================
